---- MODULE Spec2Model ----
(***************************************************************************)
(* Model of mne/proj.py: estimation of SSP projection vectors              *)
(* (_compute_proj), accumulation of the epochs covariance                  *)
(* (_compute_cov_epochs) and the sensitivity map (sensitivity_map).        *)
(*                                                                         *)
(* Three specifications share the variables: SpecProj runs _compute_proj,  *)
(* SpecCov runs _compute_cov_epochs with its parallel workers, SpecSens    *)
(* calls sensitivity_map repeatedly on one forward model.                  *)
(***************************************************************************)
EXTENDS Integers, Sequences, FiniteSets, TLC

VARIABLES
    \* _compute_proj
    info,          \* measurement info: ch_names, ch_types, bads
    data,          \* covariance matrix handed to _compute_proj
    n_req,         \* requested ranks [grad, mag, eeg]
    desc_prefix,   \* the caller's descriptive prefix
    proj_out,      \* outcome of the call, NoCall before it
    \* _compute_cov_epochs
    epochs,        \* the segments, each n_chan x n_samples
    n_jobs,        \* number of parallel workers
    running,       \* worker -> index of the segment it computes, 0 when idle
    results,       \* the list parallel() returns: slot i is NoValue until done
    cov_pc,        \* position in _compute_cov_epochs
    cov_out,       \* outcome of the call, NoCall before it
    \* sensitivity_map
    fwd,           \* the forward operator
    projs,         \* the projs argument, None when absent
    ch_type,       \* the ch_type argument
    exclude,       \* the exclude argument
    stc,           \* outcome of the most recent call, NoCall before it
    stc_prev       \* outcome of the call before that

projVars == <<info, data, n_req, desc_prefix, proj_out>>
covVars  == <<epochs, n_jobs, running, results, cov_pc, cov_out>>
sensVars == <<fwd, projs, ch_type, exclude, stc, stc_prev>>
vars     == <<projVars, covVars, sensVars>>

None    == "None"
NoCall  == [status |-> "NoCall"]
NoValue == <<>>

\* ------------------------------------------------------------------------
\* Bounds of the model
MaxChan == 3       \* channels in the info handed to _compute_proj
MaxRank == 2       \* largest requested rank per group
MaxEpochs == 2     \* segments in the epochs
MaxCovChan == 2    \* channels of a segment
MaxSamples == 2    \* samples of a segment
MaxJobs == 2       \* parallel workers
MaxLoc == 2        \* source locations of the forward operator

Min(a, b) == IF a < b THEN a ELSE b

Range(s) == {s[i] : i \in 1..Len(s)}

\* ------------------------------------------------------------------------
\* _compute_proj

Groups == <<"grad", "mag", "eeg">>

ChName(i) == <<"CH", i>>

\* Indices, in channel order, of the non-bad channels of one type.
RECURSIVE PickFrom(_, _, _)
PickFrom(inf, type, i) ==
    IF i > Len(inf.ch_names) THEN <<>>
    ELSE IF inf.ch_types[i] = type /\ inf.ch_names[i] \notin inf.bads
         THEN <<i>> \o PickFrom(inf, type, i + 1)
         ELSE PickFrom(inf, type, i + 1)

pick_types(inf, type) == PickFrom(inf, type, 1)

\* data[ind][:, ind]
SubMatrix(m, ind) ==
    [r \in 1..Len(ind) |-> [c \in 1..Len(ind) |-> m[ind[r]][ind[c]]]]

UnitVec(k, j) == [i \in 1..k |-> IF i = j THEN 1 ELSE 0]

\* Row index of the j-th largest diagonal entry of a diagonal matrix with
\* distinct entries.
DiagRank(m, j) ==
    CHOOSE r \in 1..Len(m) :
        Cardinality({q \in 1..Len(m) : m[q][q] > m[r][r]}) = j - 1

\* linalg.svd(m, full_matrices=False)[0], as the sequence of its columns,
\* for a diagonal matrix with distinct non-negative entries: the columns are
\* unit vectors ordered by descending singular value.
SvdU(m) == [j \in 1..Len(m) |-> UnitVec(Len(m), DiagRank(m, j))]

\* U[:, :n], Python slice semantics: at most the columns that exist.
FirstCols(U, n) == SubSeq(U, 1, Min(n, Len(U)))

Digits == <<"0", "1", "2", "3", "4", "5", "6", "7", "8", "9">>

\* "%02d" % k for 0 <= k < 100
Fmt02d(k) == Digits[(k \div 10) + 1] \o Digits[(k % 10) + 1]

\* The fourth list of the zip: 'planar', 'axial', 'eeg'.
GroupDesc(g) ==
    CASE g = "grad" -> "planar"
      [] g = "mag"  -> "axial"
      [] g = "eeg"  -> "eeg"

ThisDescBug(desc, prefix, k) ==
    desc \o "-" \o prefix \o "-PCA-" \o Fmt02d(k)

\* "%s-%s-PCA-%02d" % (desc, desc_prefix, k + 1), k 0-based
ThisDesc(desc, prefix, k) ==
    desc \o "-" \o prefix \o "-PCA-" \o Fmt02d(k + 1)

\* Projection(active=False, data=proj_data, desc=this_desc, kind=1)
Projection(names, u, this_desc) ==
    [active |-> FALSE,
     kind   |-> 1,
     desc   |-> this_desc,
     data   |-> [col_names |-> names, row_names |-> None,
                 data |-> <<u>>, nrow |-> 1, ncol |-> Len(u)]]

\* The inner loop: one projection per column of U.
GroupProjs(m, ind, names, desc, prefix, n) ==
    LET U == FirstCols(SvdU(SubMatrix(m, ind)), n)
    IN  [k \in 1..Len(U) |->
            Projection(names, U[k], ThisDesc(desc, prefix, k - 1))]

ForcedRankBug(n, ind) == n

\* "if (n > 0) and len(ind) == 0: n = 0"
ForcedRank(n, ind) == IF n > 0 /\ Len(ind) = 0 THEN 0 ELSE n

GroupOrderBug == <<3, 2, 1>>

\* The order in which the zip visits the groups.
GroupOrder == <<1, 2, 3>>

\* The outer loop over the groups, from position i of the zip on.
RECURSIVE ProjLoop(_, _, _, _, _)
ProjLoop(m, inf, n, prefix, i) ==
    IF i > Len(GroupOrder) THEN <<>>
    ELSE LET g     == Groups[GroupOrder[i]]
             ind   == pick_types(inf, g)
             names == [k \in 1..Len(ind) |-> inf.ch_names[ind[k]]]
             rest  == ProjLoop(m, inf, n, prefix, i + 1)
         IN  IF n[g] = 0 THEN rest
             ELSE GroupProjs(m, ind, names, GroupDesc(g), prefix, n[g]) \o rest

\* _compute_proj(data, info, n_grad, n_mag, n_eeg, desc_prefix): the returned
\* list, with the ranks as they stand after the forcing.
compute_proj(m, inf, n, prefix) ==
    LET forced == [g \in Range(Groups) |-> ForcedRank(n[g], pick_types(inf, g))]
    IN  [status |-> "ok",
         n      |-> forced,
         projs  |-> ProjLoop(m, inf, forced, prefix, 1)]

\* Inputs of SpecProj
ChTypes == {"grad", "mag", "eeg"}

Infos ==
    UNION {
        { [ch_names |-> [i \in 1..k |-> ChName(i)],
           ch_types |-> t,
           bads     |-> b] :
             t \in [1..k -> ChTypes],
             b \in {{}} \cup {{ChName(i)} : i \in 1..k} }
        : k \in 1..MaxChan }

\* Diagonal covariance matrices with distinct entries, ascending or descending.
DiagCovs(k) ==
    { [r \in 1..k |-> [c \in 1..k |-> IF r = c THEN r ELSE 0]],
      [r \in 1..k |-> [c \in 1..k |-> IF r = c THEN k + 1 - r ELSE 0]] }

Prefixes == {"Raw-0.000-1.000", "999--0.200-0.500"}

ProjIdle ==
    /\ info = None /\ data = None /\ n_req = None
    /\ desc_prefix = None /\ proj_out = NoCall

CovIdle ==
    /\ epochs = <<>> /\ n_jobs = 0 /\ running = <<>>
    /\ results = <<>> /\ cov_pc = "idle" /\ cov_out = NoCall

SensIdle ==
    /\ fwd = None /\ projs = None /\ ch_type = None
    /\ exclude = None /\ stc = NoCall /\ stc_prev = NoCall

InitProj ==
    /\ info \in Infos
    /\ data \in DiagCovs(Len(info.ch_names))
    /\ n_req \in [Range(Groups) -> 0..MaxRank]
    /\ desc_prefix \in Prefixes
    /\ proj_out = NoCall
    /\ CovIdle /\ SensIdle

CallComputeProj ==
    /\ proj_out = NoCall
    /\ proj_out' = compute_proj(data, info, n_req, desc_prefix)
    /\ UNCHANGED <<info, data, n_req, desc_prefix, covVars, sensVars>>

NextProj == CallComputeProj

SpecProj == InitProj /\ [][NextProj]_vars

\* ------------------------------------------------------------------------
\* Properties of _compute_proj

ProjDone == proj_out.status # "NoCall"

GroupInd(g) == pick_types(info, g)

GroupNames(g) == [k \in 1..Len(GroupInd(g)) |-> info.ch_names[GroupInd(g)[k]]]

Degenerate(g) == n_req[g] > 0 /\ Len(GroupInd(g)) = 0

\* Number of vectors the group contributes: the leading singular vectors
\* that exist, at most the requested rank.
Cnt(g) == Min(n_req[g], Len(GroupInd(g)))

\* Number of vectors the group would contribute if the rank were always met.
CntRequested(g) == IF Len(GroupInd(g)) = 0 THEN 0 ELSE n_req[g]

Off(c, g) ==
    CASE g = "grad" -> 0
      [] g = "mag"  -> c["grad"]
      [] g = "eeg"  -> c["grad"] + c["mag"]

\* The returned list is laid out group by group (grad, mag, eeg) with c[g]
\* vectors for group g, the k-th of them being the k-th leading singular
\* vector, inactive and scoped to the group's channel names.
LaidOut(c) ==
    /\ Len(proj_out.projs) = c["grad"] + c["mag"] + c["eeg"]
    /\ \A g \in Range(Groups) : \A k \in 1..c[g] :
          LET p == proj_out.projs[Off(c, g) + k]
          IN  /\ p.active = FALSE
              /\ p.data.col_names = GroupNames(g)
              /\ k <= Len(GroupInd(g))
              /\ p.data.data = <<SvdU(SubMatrix(data, GroupInd(g)))[k]>>

DescsOf(desc) == {ThisDesc(desc, desc_prefix, k) : k \in 0..(MaxRank + MaxChan)}

\* C3: a group with requested rank > 0 and no non-bad channel has its rank
\* forced to zero and contributes no vector, the call does not fail, and
\* every other group keeps its requested rank and is processed with it.
C3_DegenerateGroup ==
    ProjDone =>
        /\ proj_out.status = "ok"
        /\ \A g \in Range(Groups) :
              IF Degenerate(g)
              THEN /\ proj_out.n[g] = 0
                   /\ \A i \in 1..Len(proj_out.projs) :
                         /\ proj_out.projs[i].desc \notin DescsOf(GroupDesc(g))
                         /\ proj_out.projs[i].data.col_names # GroupNames(g)
              ELSE /\ proj_out.n[g] = n_req[g]
                   /\ Cardinality({i \in 1..Len(proj_out.projs) :
                         proj_out.projs[i].data.col_names = GroupNames(g)})
                      = Cnt(g)

C3_Witness ==
    /\ ProjDone
    /\ \E g, h \in Range(Groups) :
          /\ Degenerate(g) /\ n_req[g] = 2
          /\ n_req[h] > 0 /\ Len(GroupInd(h)) > 0
          /\ Len(proj_out.projs) > 0

\* C4 as stated: every non-empty group with requested rank n > 0 contributes
\* exactly n vectors, laid out grad, mag, eeg with ascending rank.
C4_ExactlyRequested ==
    ProjDone => LaidOut([g \in Range(Groups) |-> CntRequested(g)])

\* C4 amended: every non-empty group with requested rank n > 0 contributes
\* min(n, number of channels of the group) vectors; the list is laid out
\* grad, mag, eeg, rank ascending inside each group, every vector inactive
\* and scoped to exactly the group's channel names.
C4_OrderedOutput ==
    ProjDone => LaidOut([g \in Range(Groups) |-> Cnt(g)])

C4_Witness ==
    /\ ProjDone
    /\ Cnt("grad") = 2 /\ Cnt("mag") = 1
    /\ n_req["eeg"] = 2 /\ Len(GroupInd("eeg")) = 0
    /\ Len(proj_out.projs) = 3

\* The descriptors of the returned list, given the leading token of each group.
DescsAre(token(_)) ==
    /\ Len(proj_out.projs) = Cnt("grad") + Cnt("mag") + Cnt("eeg")
    /\ \A g \in Range(Groups) : \A k \in 1..Cnt(g) :
          proj_out.projs[Off([h \in Range(Groups) |-> Cnt(h)], g) + k].desc
            = token(g) \o "-" \o desc_prefix \o "-PCA-" \o Fmt02d(k)

GroupItself(g) == g

\* C5 as stated: the descriptor is "{group}-{prefix}-PCA-{rank:02d}" with
\* {group} the name of the channel group (grad, mag or eeg).
C5_DescGroupName == ProjDone => DescsAre(GroupItself)

PlanarAxialEeg(g) ==
    IF g = "grad" THEN "planar" ELSE IF g = "mag" THEN "axial" ELSE "eeg"

\* C5 amended: the descriptor is "{desc}-{prefix}-PCA-{rank:02d}" where
\* {desc} is planar for the grad group, axial for the mag group and eeg for
\* the eeg group, {prefix} is the caller's prefix and {rank} the 1-based
\* rank index padded to two digits.
C5_Descriptor == ProjDone => DescsAre(PlanarAxialEeg)

C5_Witness ==
    /\ ProjDone
    /\ Cnt("grad") = 2 /\ Cnt("mag") >= 1
    /\ proj_out.projs[1].desc = "planar-Raw-0.000-1.000-PCA-01"
    /\ proj_out.projs[2].desc = "planar-Raw-0.000-1.000-PCA-02"
    /\ proj_out.projs[3].desc = "axial-Raw-0.000-1.000-PCA-01"

\* ------------------------------------------------------------------------
\* _compute_cov_epochs

RECURSIVE DotRows(_, _, _)
DotRows(a, b, k) == IF k = 0 THEN 0 ELSE a[k] * b[k] + DotRows(a, b, k - 1)

\* np.dot(e, e.T)
Dot(e) ==
    [r \in 1..Len(e) |-> [q \in 1..Len(e) |-> DotRows(e[r], e[q], Len(e[r]))]]

MatAdd(a, b) ==
    [r \in 1..Len(a) |-> [q \in 1..Len(a[r]) |-> a[r][q] + b[r][q]]]

RECURSIVE SumFrom(_, _, _)
SumFrom(acc, l, i) ==
    IF i > Len(l) THEN acc ELSE SumFrom(MatAdd(acc, l[i]), l, i + 1)

SumDataBug(l) == IF Len(l) = 0 THEN 0 ELSE l[Len(l)]

\* sum(data): 0 + data[0] + data[1] + ..., left to right
SumData(l) == IF Len(l) = 0 THEN 0 ELSE SumFrom(l[1], l, 2)

\* _check_n_samples(n_samples, n_chan) passes: the total sample count
\* exceeds the channel count.
check_n_samples(n_samples, n_chan) == n_samples > n_chan

CovTailBug(l, eps) ==
    IF Len(l) = 0 THEN [status |-> "RuntimeError", data |-> NoValue]
    ELSE [status |-> "ok", data |-> SumData(l)]

\* Lines 140-147, after parallel() has returned the list l.
CovTail(l, eps) ==
    LET n_epochs == Len(l)
    IN  IF n_epochs = 0
        THEN [status |-> "RuntimeError", data |-> NoValue]
        ELSE LET n_chan    == Len(eps[1])
                 n_samples == Len(eps[1][1])
             IN  IF ~check_n_samples(n_samples * n_epochs, n_chan)
                 THEN [status |-> "ValueError", data |-> NoValue]
                 ELSE [status |-> "ok", data |-> SumData(l)]

\* Three segments of each shape.
Segments(c, s) ==
    { [r \in 1..c |-> [k \in 1..s |-> 1]],
      [r \in 1..c |-> [k \in 1..s |-> IF (r + k) % 2 = 0 THEN 1 ELSE -1]],
      [r \in 1..c |-> [k \in 1..s |-> r - k]] }

SeqsUpTo(S, n) == UNION {[1..k -> S] : k \in 0..n}

InitCov ==
    /\ \E c \in 1..MaxCovChan, s \in 1..MaxSamples :
          epochs \in SeqsUpTo(Segments(c, s), MaxEpochs)
    /\ n_jobs \in 1..MaxJobs
    /\ running = [w \in 1..n_jobs |-> 0]
    /\ results = [i \in 1..Len(epochs) |-> NoValue]
    /\ cov_pc = "map"
    /\ cov_out = NoCall
    /\ ProjIdle /\ SensIdle

Started(i) == results[i] # NoValue \/ \E w \in 1..n_jobs : running[w] = i

\* A free worker takes the next segment of the iterator.
Dispatch(w) ==
    /\ cov_pc = "map"
    /\ running[w] = 0
    /\ \E i \in 1..Len(epochs) :
          /\ ~Started(i)
          /\ \A j \in 1..(i - 1) : Started(j)
          /\ running' = [running EXCEPT ![w] = i]
    /\ UNCHANGED <<epochs, n_jobs, results, cov_pc, cov_out, projVars, sensVars>>

\* A worker finishes p_fun(e, e.T) and its output takes its place in the list.
Finish(w) ==
    /\ cov_pc = "map"
    /\ running[w] # 0
    /\ results' = [results EXCEPT ![running[w]] = Dot(epochs[running[w]])]
    /\ running' = [running EXCEPT ![w] = 0]
    /\ UNCHANGED <<epochs, n_jobs, cov_pc, cov_out, projVars, sensVars>>

\* parallel() has returned; the rest of _compute_cov_epochs runs.
Reduce ==
    /\ cov_pc = "map"
    /\ \A i \in 1..Len(epochs) : results[i] # NoValue
    /\ cov_out' = CovTail(results, epochs)
    /\ cov_pc' = "done"
    /\ UNCHANGED <<epochs, n_jobs, running, results, projVars, sensVars>>

NextCov ==
    \/ \E w \in 1..n_jobs : Dispatch(w)
    \/ \E w \in 1..n_jobs : Finish(w)
    \/ Reduce

SpecCov == InitCov /\ [][NextCov]_vars

\* ------------------------------------------------------------------------
\* Properties of _compute_cov_epochs

CovDone == cov_pc = "done"

RECURSIVE TotalSamples(_, _)
TotalSamples(eps, i) ==
    IF i > Len(eps) THEN 0 ELSE Len(eps[i][1]) + TotalSamples(eps, i + 1)

\* C6: a matrix is returned only with at least one segment and more samples
\* in total than channels; zero segments fail with the no-usable-data error,
\* too few samples with the too-few-samples error, and a failure returns
\* no sum, partial or complete.
C6_InsufficientData ==
    CovDone =>
        /\ cov_out.status = "ok" <=>
              (Len(epochs) >= 1 /\ TotalSamples(epochs, 1) > Len(epochs[1]))
        /\ Len(epochs) = 0 => cov_out.status = "RuntimeError"
        /\ (Len(epochs) >= 1 /\ TotalSamples(epochs, 1) <= Len(epochs[1]))
              => cov_out.status = "ValueError"
        /\ cov_out.status # "ok" => cov_out.data = NoValue
        /\ cov_out.status = "ok" => cov_out.data # NoValue

C6_Witness ==
    /\ CovDone
    /\ Len(epochs) = 2 /\ Len(epochs[1]) = 2 /\ Len(epochs[1][1]) = 1
    /\ cov_out.status = "ValueError"
    /\ \A i \in 1..2 : results[i] # NoValue

Perms(n) == {p \in [1..n -> 1..n] : \A i, j \in 1..n : i # j => p[i] # p[j]}

\* The sum of the per-segment products X*X^T taken in the order p.
SumInOrder(eps, p) ==
    LET n == Len(eps)
        c == Len(eps[1])
        Entry(r, q) ==
            LET RECURSIVE Acc(_)
                Acc(i) == IF i = 0 THEN 0
                          ELSE Acc(i - 1)
                               + DotRows(eps[p[i]][r], eps[p[i]][q], Len(eps[p[i]][r]))
            IN  Acc(n)
    IN  [r \in 1..c |-> [q \in 1..c |-> Entry(r, q)]]

\* A worker's step fills only the slot of the segment that worker computes,
\* with that segment's product, and touches no other worker.
OwnSlotOnly ==
    \A i \in 1..Len(epochs) :
        results'[i] # results[i] =>
            /\ results[i] = NoValue
            /\ results'[i] = Dot(epochs[i])
            /\ \E w \in 1..n_jobs :
                  /\ running[w] = i /\ running'[w] = 0
                  /\ \A v \in 1..n_jobs : v # w => running'[v] = running[v]

\* C7: the returned matrix is the sum of the per-segment products X*X^T,
\* whatever the number of workers, the order in which they complete and the
\* order of the segments; a worker writes only its own output slot.
C7_OrderIndependent ==
    /\ [](CovDone /\ cov_out.status = "ok" =>
            \A p \in Perms(Len(epochs)) : cov_out.data = SumInOrder(epochs, p))
    /\ [][OwnSlotOnly]_vars

C7_Witness ==
    /\ CovDone /\ cov_out.status = "ok"
    /\ n_jobs = 2 /\ Len(epochs) = 2
    /\ epochs[1] # epochs[2]
    /\ Dot(epochs[1]) # Dot(epochs[2])

\* ------------------------------------------------------------------------
\* Floating point numbers of sensitivity_map: fixed point with One units to
\* the unit; a division by zero yields inf or nan as numpy does.

One == 10

Num(v) == [t |-> "num", v |-> v]
NaN    == [t |-> "nan", v |-> 0]
Inf    == [t |-> "inf", v |-> 1]

\* x / y for finite non-negative x, y
FDiv(x, y) ==
    IF y = 0 THEN (IF x = 0 THEN NaN ELSE Inf) ELSE Num((x * One) \div y)

\* 1. - f
OneMinus(f) ==
    CASE f.t = "num" -> Num(One - f.v)
      [] f.t = "nan" -> NaN
      [] f.t = "inf" -> [t |-> "inf", v |-> 0 - f.v]

RECURSIVE ISqrtIn(_, _, _)
ISqrtIn(x, lo, hi) ==
    IF lo >= hi THEN lo
    ELSE LET mid == (lo + hi + 1) \div 2
         IN  IF mid * mid <= x THEN ISqrtIn(x, mid, hi)
             ELSE ISqrtIn(x, lo, mid - 1)

\* floor of the square root
ISqrt(x) == ISqrtIn(x, 0, Min(x, 40000))

RECURSIVE SumSq(_, _)
SumSq(v, k) == IF k = 0 THEN 0 ELSE v[k] * v[k] + SumSq(v, k - 1)

\* linalg.norm(v)
Norm(v) == ISqrt(SumSq(v, Len(v)))

\* linalg.svd(gg, compute_uv=False)[0] for a block of one or two rows: the
\* square root of the largest eigenvalue of gg * gg^T
Svd0(gg) ==
    IF Len(gg) = 1 THEN Norm(gg[1])
    ELSE LET a == DotRows(gg[1], gg[1], 3)
             c == DotRows(gg[2], gg[2], 3)
             b == DotRows(gg[1], gg[2], 3)
         IN  ISqrt((a + c + ISqrt((a - c) * (a - c) + 4 * b * b)) \div 2)

\* np.dot(m, g) for a matrix m in fixed point
MatMul(m, g) ==
    [i \in 1..Len(m) |-> [c \in 1..Len(g[1]) |->
        LET RECURSIVE Acc(_)
            Acc(j) == IF j = 0 THEN 0 ELSE m[i][j] * g[j][c] + Acc(j - 1)
        IN  Acc(Len(g)) \div One]]

\* np.dot(proj, v) for a vector v
MatVec(m, v) ==
    [i \in 1..Len(m) |->
        LET RECURSIVE Acc(_)
            Acc(j) == IF j = 0 THEN 0 ELSE m[i][j] * v[j] + Acc(j - 1)
        IN  Acc(Len(v)) \div One]

\* np.dot(v, U), U given as the sequence of its columns
VecMat(v, U) ==
    [c \in 1..Len(U) |->
        LET RECURSIVE Acc(_)
            Acc(j) == IF j = 0 THEN 0 ELSE v[j] * U[c][j] + Acc(j - 1)
        IN  Acc(Len(v)) \div One]

\* ------------------------------------------------------------------------
\* Collaborators of sensitivity_map

\* FIFF.FIFFV_MNE_PROJ_ITEM_EEG_AVREF
EEG_AVREF == 10

is_fixed_orient(f) == f.source_ori = "fixed"

\* The exclude argument: a list of channel names, or the string 'bads'.
ExcludeList(names) == [bads |-> FALSE, names |-> names]
ExcludeBads == [bads |-> TRUE, names |-> <<>>]

\* Rows of the forward restricted to the non-excluded channels of a type.
pick_types_forward(f, type, excl) ==
    LET out == IF excl.bads THEN f.info.bads ELSE Range(excl.names)
        inf == [ch_names |-> f.info.ch_names, ch_types |-> f.info.ch_types,
                bads |-> out]
        ind == pick_types(inf, type)
    IN  [surf_ori   |-> f.surf_ori,
         source_ori |-> f.source_ori,
         info |-> [ch_names |-> [k \in 1..Len(ind) |-> f.info.ch_names[ind[k]]],
                   ch_types |-> [k \in 1..Len(ind) |-> type],
                   bads     |-> f.info.bads \ out],
         sol  |-> [data      |-> [k \in 1..Len(ind) |-> f.sol.data[ind[k]]],
                   row_names |-> [k \in 1..Len(ind) |-> f.info.ch_names[ind[k]]]]]

\* The average reference vector over the EEG channels of the info.
make_eeg_average_ref_proj(inf) ==
    LET ind == pick_types([inf EXCEPT !.bads = {}], "eeg")
    IN  [active |-> TRUE,
         kind   |-> EEG_AVREF,
         desc   |-> "Average EEG reference",
         data   |-> [col_names |-> [k \in 1..Len(ind) |-> inf.ch_names[ind[k]]],
                     row_names |-> None,
                     data |-> <<[k \in 1..Len(ind) |-> 1]>>,
                     nrow |-> 1, ncol |-> Len(ind)]]

\* The vector of a projection over the channel ordering names, zero where
\* the projection has no such channel.
ProjVec(p, names) ==
    [i \in 1..Len(names) |->
        IF \E k \in 1..Len(p.data.col_names) : p.data.col_names[k] = names[i]
        THEN p.data.data[1][CHOOSE k \in 1..Len(p.data.col_names) :
                                p.data.col_names[k] = names[i]]
        ELSE 0]

Identity(n) == [i \in 1..n |-> [j \in 1..n |-> IF i = j THEN One ELSE 0]]

\* make_projector(projs, ch_names, include_active=True) for one or two
\* channels: proj removes the span of the vectors, U is an orthonormal
\* basis of that span (as the sequence of its columns).
make_projector(pl, names) ==
    LET n    == Len(names)
        vecs == {v \in {ProjVec(pl[i], names) : i \in 1..Len(pl)} :
                    \E i \in 1..n : v[i] # 0}
        full == \/ (n = 1 /\ vecs # {})
                \/ (n = 2 /\ \E v, w \in vecs : v[1] * w[2] # v[2] * w[1])
    IN  IF vecs = {}
        THEN [proj |-> Identity(n), ncomp |-> 0, U |-> <<>>]
        ELSE IF full
        THEN [proj  |-> [i \in 1..n |-> [j \in 1..n |-> 0]],
              ncomp |-> n,
              U     |-> [c \in 1..n |-> [j \in 1..n |-> IF c = j THEN One ELSE 0]]]
        ELSE LET v  == CHOOSE w \in vecs : TRUE
                 vv == SumSq(v, n)
                 sg(x) == IF x < 0 THEN -1 ELSE 1
             IN  [proj  |-> [i \in 1..n |-> [j \in 1..n |->
                                (IF i = j THEN One ELSE 0)
                                - (One * v[i] * v[j]) \div vv]],
                  ncomp |-> 1,
                  U     |-> <<[j \in 1..n |->
                                sg(v[j]) * ISqrt((One * One * v[j] * v[j]) \div vv)]>>]

\* ------------------------------------------------------------------------
\* sensitivity_map

SensTypes == {"eeg", "grad", "mag"}

Modes == {"free", "fixed", "ratio", "radiality", "angle", "remaining", "dampening"}

\* The modes computed on the un-projected gain, which need a projector.
UnprojectedModes == {"angle", "remaining", "dampening"}

\* "only normalize fixed and free methods"
NormalizedModes == {"fixed", "free"}

\* The projs argument: None, or a list of projections.
NoProjs == [none |-> TRUE, list |-> <<>>]
ProjList(l) == [none |-> FALSE, list |-> l]

Failure(kind, why, mode) ==
    [status |-> kind, error |-> why, mode |-> mode, map |-> <<>>,
     raw |-> <<>>, gain |-> <<>>, proj_list |-> NoProjs]

HasAvRef(pl) == \E i \in 1..Len(pl) : pl[i].kind = EEG_AVREF

\* "Make sure EEG has average": eeg_ave is bound only when projs is None or
\* holds no average reference, and is read in both cases.
EegProjs(pl, inf) ==
    IF pl.none
    THEN [bound |-> TRUE, projs |-> ProjList(<<make_eeg_average_ref_proj(inf)>>)]
    ELSE IF ~HasAvRef(pl.list)
    THEN [bound |-> TRUE,
          projs |-> ProjList(pl.list \o <<make_eeg_average_ref_proj(inf)>>)]
    ELSE [bound |-> FALSE, projs |-> pl]

\* gain[:, 3 * k:3 * (k + 1)], k 0-based
Block(gain, k) ==
    [i \in 1..Len(gain) |-> [c \in 1..3 |-> gain[i][3 * k + c]]]

Column(gg, c) == [i \in 1..Len(gg) |-> gg[i][c]]

LocationValueBug(gg, mode, P) ==
    LET s0 == Svd0(gg)
        gz == Norm(Column(gg, 3))
    IN  CASE mode = "free"      -> Num(s0)
          [] mode = "fixed"     -> Num(gz)
          [] mode = "ratio"     -> FDiv(gz, s0)
          [] mode = "radiality" -> OneMinus(FDiv(s0, gz))
          [] mode = "angle"     -> FDiv(Norm(VecMat(Column(gg, 3), P.U)), gz)
          [] mode = "remaining" -> FDiv(Norm(MatVec(P.proj, Column(gg, 3))), gz)
          [] mode = "dampening" -> FDiv(Norm(MatVec(P.proj, Column(gg, 3))), gz)

\* The body of the loop over the locations: sensitivity_map[k].
LocationValue(gg, mode, P) ==
    LET s0 == Svd0(gg)
        gz == Norm(Column(gg, 3))
    IN  CASE mode = "free"      -> Num(s0)
          [] mode = "fixed"     -> Num(gz)
          [] mode = "ratio"     -> FDiv(gz, s0)
          [] mode = "radiality" -> OneMinus(FDiv(gz, s0))
          [] mode = "angle"     -> FDiv(Norm(VecMat(Column(gg, 3), P.U)), gz)
          [] mode = "remaining" -> FDiv(Norm(MatVec(P.proj, Column(gg, 3))), gz)
          [] mode = "dampening" ->
                OneMinus(FDiv(Norm(MatVec(P.proj, Column(gg, 3))), gz))

RECURSIVE MaxOf(_, _)
MaxOf(vals, k) ==
    IF k = 1 THEN vals[1].v
    ELSE LET m == MaxOf(vals, k - 1) IN IF vals[k].v > m THEN vals[k].v ELSE m

NormalizeBug(vals) == vals

\* sensitivity_map /= np.max(sensitivity_map), on finite non-negative values
Normalize(vals) ==
    LET m == MaxOf(vals, Len(vals))
    IN  [k \in 1..Len(vals) |-> FDiv(vals[k].v, m)]

GainUsedBug(gain, P, mode) == MatMul(P.proj, gain)

\* "do projection for most types"
GainUsed(gain, P, mode) ==
    IF mode \notin UnprojectedModes THEN MatMul(P.proj, gain) ELSE gain

\* The branches of the loop that read proj or U, names bound only at
\* lines 307-308.
ReadsProjector(mode) == mode \in {"angle", "remaining", "dampening"}

NoProjectorBug(mode) == FALSE

\* "can only run the last couple methods if there are projectors"
NoProjector(mode) == mode \in UnprojectedModes

\* sensitivity_map(fwd, projs, ch_type, mode, exclude): the outcome of the
\* call, with the list handed to make_projector and the gain of the loop.
sensitivity_map(f, pl, type, mode, excl) ==
    IF type \notin SensTypes THEN Failure("ValueError", "ch_type", mode)
    ELSE IF mode \notin Modes THEN Failure("ValueError", "mode", mode)
    ELSE IF ~f.surf_ori THEN Failure("ValueError", "surf_ori", mode)
    ELSE IF is_fixed_orient(f) THEN Failure("ValueError", "fixed_ori", mode)
    ELSE
    LET picked == pick_types_forward(f, type, excl)
        gain0  == picked.sol.data
        eeg    == IF type = "eeg" THEN EegProjs(pl, picked.info)
                  ELSE [bound |-> TRUE, projs |-> pl]
    IN  IF ~eeg.bound THEN Failure("UnboundLocalError", "eeg_ave", mode)
        ELSE IF eeg.projs.none /\ NoProjector(mode)
        THEN Failure("ValueError", "no_projectors", mode)
        ELSE IF eeg.projs.none /\ ReadsProjector(mode)
        THEN Failure("NameError", "proj", mode)
        ELSE
        LET P    == IF eeg.projs.none THEN None
                    ELSE make_projector(eeg.projs.list, picked.sol.row_names)
            gain == IF eeg.projs.none THEN gain0 ELSE GainUsed(gain0, P, mode)
            n_locations == Len(gain[1]) \div 3
            raw  == [k \in 1..n_locations |->
                        LocationValue(Block(gain, k - 1), mode, P)]
        IN  [status    |-> "ok",
             error     |-> None,
             mode      |-> mode,
             map       |-> IF mode \in NormalizedModes THEN Normalize(raw) ELSE raw,
             raw       |-> raw,
             gain      |-> gain,
             proj_list |-> eeg.projs]

\* Inputs of SpecSens: two channels of each type, the second grad and the
\* second eeg channel marked bad.
FwdNames == <<"MEG 0113", "MEG 0112", "MEG 0111", "MEG 0121", "EEG 001", "EEG 002">>
FwdTypes == <<"grad", "grad", "mag", "mag", "eeg", "eeg">>
FwdBads  == {"MEG 0112", "EEG 002"}

\* Gain of one location for the two channels of a type (rows), along the two
\* tangential directions and the normal (columns).
GainBlocks ==
    { << <<0, 0, 0>>,         <<0, 0, 0>> >>,
      << <<One, 0, 2 * One>>, <<One, 0, 2 * One>> >>,
      << <<0, 0, One>>,       <<0, 0, 0 - One>> >>,
      << <<2 * One, 0, 0>>,   <<0, One, One>> >> }

RECURSIVE GainRow(_, _, _)
GainRow(blocks, r, l) ==
    IF l > Len(blocks) THEN <<>> ELSE blocks[l][r] \o GainRow(blocks, r, l + 1)

Forward(blocks, surf, ori) ==
    [surf_ori   |-> surf,
     source_ori |-> ori,
     info |-> [ch_names |-> FwdNames, ch_types |-> FwdTypes, bads |-> FwdBads],
     sol  |-> [data |-> [i \in 1..Len(FwdNames) |->
                            GainRow(blocks, ((i - 1) % 2) + 1, 1)],
               row_names |-> FwdNames]]

Forwards ==
    { Forward(b, o[1], o[2]) :
        b \in UNION {[1..n -> GainBlocks] : n \in 1..MaxLoc},
        o \in {<<TRUE, "free">>, <<FALSE, "free">>, <<TRUE, "fixed">>} }

NamesOfType(type) ==
    LET ind == pick_types([ch_names |-> FwdNames, ch_types |-> FwdTypes,
                           bads |-> {}], type)
    IN  [k \in 1..Len(ind) |-> FwdNames[ind[k]]]

\* A PCA vector along the first channel of a type.
PcaProj(type) ==
    Projection(NamesOfType(type), <<1, 0>>, GroupDesc(type) \o "-Raw-0.000-1.000-PCA-01")

AvRefProj == make_eeg_average_ref_proj(
                [ch_names |-> FwdNames, ch_types |-> FwdTypes, bads |-> {}])

ProjLists(type) ==
    LET t == IF type \in SensTypes THEN type ELSE "grad"
    IN  {NoProjs, ProjList(<<>>), ProjList(<<PcaProj(t)>>),
         ProjList(<<AvRefProj>>), ProjList(<<PcaProj(t), AvRefProj>>)}

InitSens ==
    /\ fwd \in Forwards
    /\ ch_type \in SensTypes \cup {"meg"}
    /\ projs \in ProjLists(ch_type)
    /\ exclude \in {ExcludeList(<<>>), ExcludeBads}
    /\ stc = NoCall
    /\ stc_prev = NoCall
    /\ ProjIdle /\ CovIdle

CallSensitivityMap(mode) ==
    /\ stc_prev = NoCall
    /\ stc' = sensitivity_map(fwd, projs, ch_type, mode, exclude)
    /\ stc_prev' = stc
    /\ UNCHANGED <<fwd, projs, ch_type, exclude, projVars, covVars>>

NextSens == \E mode \in Modes \cup {"bogus"} : CallSensitivityMap(mode)

SpecSens == InitSens /\ [][NextSens]_vars

\* ------------------------------------------------------------------------
\* Properties of sensitivity_map

Called == stc.status # "NoCall"

ValidForward == fwd.surf_ori /\ fwd.source_ori = "free"

\* The call passed the checks of the strings and of the forward.
ValidCall == Called /\ ValidForward /\ ch_type \in {"grad", "mag", "eeg"}

ProjectorModes == {"angle", "remaining", "dampening"}

NoVectorSupplied == projs.none \/ projs.list = <<>>

FailsNoProjectors(out) ==
    /\ out.status = "ValueError" /\ out.error = "no_projectors"
    /\ out.map = <<>> /\ out.raw = <<>>

Restricted == pick_types_forward(fwd, ch_type, exclude)

NLocations == Len(fwd.sol.data[1]) \div 3

Computed(out) == out.status = "ok" /\ Len(out.map) = NLocations

SynthesizedAvRef == make_eeg_average_ref_proj(Restricted.info)

\* C2: with ch_type eeg the list handed to the projector constructor is the
\* supplied list plus one synthesized average reference exactly when the
\* supplied list is absent or holds none; when it holds one already the
\* supplied list is used as is and the call goes on to compute the map.
C2_EegAverageRef ==
    (ValidCall /\ ch_type = "eeg" /\ stc.mode \in Modes) =>
        /\ stc.status = "ok"
        /\ stc.proj_list =
              IF projs.none \/ ~(\E i \in 1..Len(projs.list) :
                                    projs.list[i].kind = EEG_AVREF)
              THEN ProjList(projs.list \o <<SynthesizedAvRef>>)
              ELSE projs

\* The two outcomes are maps of the same call in modes a and b, in either
\* order, and the map of b is 1 minus the map of a at every location, both
\* computed from the same gain.
Complement(x, y, a, b) ==
    (x.status = "ok" /\ y.status = "ok" /\ x.mode = a /\ y.mode = b) =>
        /\ Len(x.map) = NLocations /\ Len(y.map) = NLocations
        /\ \A k \in 1..NLocations :
              IF x.map[k].t = "num"
              THEN y.map[k].t = "num" /\ y.map[k].v = One - x.map[k].v
              ELSE y.map[k].t = x.map[k].t
        /\ x.gain = y.gain

\* C8: for the same forward, sensor type, exclusion and projections,
\* radiality(k) = 1 - ratio(k) and dampening(k) = 1 - remaining(k) at every
\* location k, each pair computed from the same gain: projected for
\* ratio/radiality, un-projected for remaining/dampening.
C8_Complements ==
    /\ Complement(stc, stc_prev, "ratio", "radiality")
    /\ Complement(stc_prev, stc, "ratio", "radiality")
    /\ Complement(stc, stc_prev, "remaining", "dampening")
    /\ Complement(stc_prev, stc, "remaining", "dampening")
    /\ (stc.status = "ok" /\ ~stc.proj_list.none) =>
          stc.gain =
            IF stc.mode \in {"ratio", "radiality"}
            THEN MatMul(make_projector(stc.proj_list.list,
                                       Restricted.sol.row_names).proj,
                        Restricted.sol.data)
            ELSE IF stc.mode \in {"remaining", "dampening"}
            THEN Restricted.sol.data
            ELSE stc.gain

C8_Witness ==
    /\ stc_prev.status = "ok" /\ stc_prev.mode = "ratio"
    /\ stc.status = "ok" /\ stc.mode = "radiality"
    /\ ~projs.none /\ projs.list # <<>>
    /\ \E k \in 1..NLocations :
          /\ stc_prev.map[k].t = "num"
          /\ 0 < stc_prev.map[k].v /\ stc_prev.map[k].v < One
          /\ stc.map[k] = Num(One - stc_prev.map[k].v)

InUnitRange(f) == f.t = "num" /\ 0 <= f.v /\ f.v <= One

\* C9 as stated: in modes fixed and free every returned map has maximum
\* exactly 1 and values in [0, 1], also when the gain is zero at every
\* location; the other modes are returned without rescaling.
C9_MaxAlwaysOne ==
    stc.status = "ok" =>
        IF stc.mode \in {"fixed", "free"}
        THEN /\ \A k \in 1..Len(stc.map) : InUnitRange(stc.map[k])
             /\ \E k \in 1..Len(stc.map) : stc.map[k] = Num(One)
        ELSE stc.map = stc.raw

\* C9 amended: in modes fixed and free a returned map whose largest
\* per-location value is not zero has maximum exactly 1 and values in
\* [0, 1]; when the gain is zero at every location the rescaling divides 0
\* by 0 and every value is NaN; the other five modes are returned without
\* rescaling.
C9_Normalized ==
    stc.status = "ok" =>
        IF stc.mode \in {"fixed", "free"}
        THEN IF \E k \in 1..Len(stc.raw) : stc.raw[k].v # 0
             THEN /\ \A k \in 1..Len(stc.map) : InUnitRange(stc.map[k])
                  /\ \E k \in 1..Len(stc.map) : stc.map[k] = Num(One)
                  /\ \A k, l \in 1..Len(stc.map) :
                        stc.raw[k].v <= stc.raw[l].v
                            => stc.map[k].v <= stc.map[l].v
             ELSE \A k \in 1..Len(stc.map) : stc.map[k] = NaN
        ELSE stc.map = stc.raw

C9_Witness ==
    /\ stc.status = "ok" /\ stc.mode = "free"
    /\ Len(stc.map) = 2
    /\ stc.map[1] = Num(One)
    /\ stc.map[2].t = "num" /\ 0 < stc.map[2].v /\ stc.map[2].v < One
    /\ stc.proj_list # NoProjs

NormalNorm(gain, k) == Norm([i \in 1..Len(gain) |-> gain[i][3 * k]])

LargestNormalNorm(gain) ==
    CHOOSE m \in {NormalNorm(gain, k) : k \in 1..NLocations} :
        \A l \in 1..NLocations : NormalNorm(gain, l) <= m

\* C10: with a projection list the loop runs on P*gain in modes free, fixed,
\* ratio and radiality and on the un-projected restricted gain in modes
\* angle, remaining and dampening; without one (sensor type not eeg, projs
\* absent) it runs on the restricted gain unchanged, and fixed yields at
\* each location the norm of the normal column over the largest such norm.
C10_GainUsed ==
    stc.status = "ok" =>
        LET gain0 == Restricted.sol.data
        IN  /\ stc.proj_list.none <=> (projs.none /\ ch_type # "eeg")
            /\ ch_type # "eeg" => stc.proj_list = projs
            /\ IF stc.proj_list.none
               THEN /\ stc.gain = gain0
                    /\ stc.mode = "fixed" =>
                          \A k \in 1..NLocations :
                              stc.map[k] = FDiv(NormalNorm(gain0, k),
                                                LargestNormalNorm(gain0))
               ELSE LET P == make_projector(stc.proj_list.list,
                                            Restricted.sol.row_names)
                    IN  /\ stc.mode \in {"free", "fixed", "ratio", "radiality"}
                              => stc.gain = MatMul(P.proj, gain0)
                        /\ stc.mode \in {"angle", "remaining", "dampening"}
                              => stc.gain = gain0

C10_Witness ==
    /\ stc.status = "ok" /\ stc.mode = "remaining"
    /\ stc_prev.status = "ok" /\ stc_prev.mode = "fixed"
    /\ ~stc.proj_list.none
    /\ stc.gain = Restricted.sol.data
    /\ stc_prev.gain # Restricted.sol.data

====
